---- MODULE Spec2Model ----
(***************************************************************************)
(* TagFS (last-genius/tag_fs): the tag-graph storage engine and the        *)
(* filesystem callbacks on top of it, src/src/fs/{mod,nodes,defs}.rs.      *)
(*                                                                         *)
(* The persistent store is the directory /tmp/tagfs with five              *)
(* sub-directories; it outlives the process.  The engine value (TagFS)    *)
(* holds the hasher, the inode counter and the file-handle counter and is  *)
(* rebuilt by TagFS::new in every process.  Requests run one at a time to  *)
(* completion, so every callback is one action.                            *)
(***************************************************************************)
EXTENDS Integers, Sequences, FiniteSets, TLC

VARIABLES
    store,            \* the data directory: filenodes, tagnodes, namenodes, namenodes_id, inodes
    hasher,           \* TagFS.hasher: the data fed to the hasher since its last reset
    inode_cur,        \* TagFS.inode_cur
    filehandle_cur,   \* TagFS.filehandle_cur
    phase,            \* the process: "none" | "constructed" | "serving" | "destroyed" | "aborted"
    mounts,           \* how many engines have been constructed on this store
    req,              \* the request of the last callback
    reply,            \* the reply given to it
    clock             \* SystemTime::now(), in seconds since the epoch

vars == <<store, hasher, inode_cur, filehandle_cur, phase, mounts, req, reply, clock>>

---------------------------------------------------------------------------
(* Bounds of the model *)

\* the highest inode number a create/mknod may allocate in one mount
MaxInode == 3
\* the pool of NameNode uuids the environment can hand out
MaxUuid == 4
\* the number of engines (mounts) over the life of the store
MaxMounts == 2
\* the last second the clock reaches
MaxClock == 2

---------------------------------------------------------------------------
(* libc constants used by create and mknod *)

S_IFMT == 61440      \* 0o170000
S_IFREG == 32768     \* 0o100000
S_IFDIR == 16384     \* 0o040000
S_IFLNK == 40960     \* 0o120000
S_IFIFO == 4096      \* 0o010000
S_ISUID == 2048      \* 0o4000
S_ISGID == 1024      \* 0o2000

\* getuid() of the process that runs the engine
ProcUid == 1000

\* the inputs of the requests
Names == {"file1", "x"}
\* 0o100644, 0o040755, 0o120777, 0o010644
Modes == {S_IFREG + 420, S_IFDIR + 493, S_IFLNK + 511, S_IFIFO + 420}
Uids == {ProcUid}
Inos == 1..(MaxInode + 1)   \* MaxInode + 1 is never allocated
Offsets == {0, 1}        \* readdir offsets
BufCaps == {1, 2}        \* entries the reply buffer of a readdir holds
Uuids == 1..MaxUuid

---------------------------------------------------------------------------
(* The time helpers of defs.rs.  A SystemTime is the timespec the standard  *)
(* library keeps, [tv_sec, tv_nsec] with 0 <= tv_nsec < NANOS_PER_SEC; a    *)
(* Duration is [secs, nanos] with the same range of nanos.                  *)

NANOS_PER_SEC == 1000000000

UNIX_EPOCH == [tv_sec |-> 0, tv_nsec |-> 0]

\* Duration::new: whole seconds in nanos are carried into secs
Duration_new(secs, nanos) ==
    [secs |-> secs + nanos \div NANOS_PER_SEC, nanos |-> nanos % NANOS_PER_SEC]

\* SystemTime + Duration
SystemTime_add(t, d) ==
    IF t.tv_nsec + d.nanos >= NANOS_PER_SEC
    THEN [tv_sec |-> t.tv_sec + d.secs + 1,
          tv_nsec |-> t.tv_nsec + d.nanos - NANOS_PER_SEC]
    ELSE [tv_sec |-> t.tv_sec + d.secs, tv_nsec |-> t.tv_nsec + d.nanos]

\* SystemTime - Duration
SystemTime_sub(t, d) ==
    IF t.tv_nsec - d.nanos < 0
    THEN [tv_sec |-> t.tv_sec - d.secs - 1,
          tv_nsec |-> t.tv_nsec - d.nanos + NANOS_PER_SEC]
    ELSE [tv_sec |-> t.tv_sec - d.secs, tv_nsec |-> t.tv_nsec - d.nanos]

\* the Duration from b to a, for a not earlier than b
SystemTime_diff(a, b) ==
    IF a.tv_nsec >= b.tv_nsec
    THEN [secs |-> a.tv_sec - b.tv_sec, nanos |-> a.tv_nsec - b.tv_nsec]
    ELSE [secs |-> a.tv_sec - b.tv_sec - 1,
          nanos |-> a.tv_nsec + NANOS_PER_SEC - b.tv_nsec]

\* SystemTime::duration_since: Ok(duration), or Err carrying how far self
\* lies before earlier
duration_since(self, earlier) ==
    IF self.tv_sec > earlier.tv_sec
       \/ (self.tv_sec = earlier.tv_sec /\ self.tv_nsec >= earlier.tv_nsec)
    THEN [tag |-> "Ok", duration |-> SystemTime_diff(self, earlier)]
    ELSE [tag |-> "Err", duration |-> SystemTime_diff(earlier, self)]

\* system_time_from_time
system_time_from_time(secs, nsecs) ==
    IF secs >= 0
    THEN SystemTime_add(UNIX_EPOCH, Duration_new(secs, nsecs))
    ELSE SystemTime_sub(UNIX_EPOCH, Duration_new(-secs, nsecs))

\* a conversion that reads the timespec off as it is kept
time_from_system_time_timespec(system_time) ==
    <<system_time.tv_sec, system_time.tv_nsec>>

\* time_from_system_time
time_from_system_time(system_time) ==
    LET r == duration_since(system_time, UNIX_EPOCH) IN
    IF r.tag = "Ok"
    THEN <<r.duration.secs, r.duration.nanos>>
    ELSE <<-(r.duration.secs), r.duration.nanos>>

\* time_now
time_now == time_from_system_time([tv_sec |-> clock, tv_nsec |-> 0])

---------------------------------------------------------------------------
(* defs.rs *)

\* Sha3_256::new(): nothing fed yet
EmptyHasher == 0

\* HashCalculate::calculate_hash = finalize_reset: the digest is a function of
\* the data fed since the last reset (injective here), and the hasher is reset.
calculate_hash(h) == [hash |-> h, hasher |-> EmptyHasher]

\* InodeAttributes::new_file_attr
new_file_attr(inode, kind, mode) ==
    [inode |-> inode, open_file_handles |-> 0, size |-> 0,
     last_accessed |-> time_now, last_modified |-> time_now,
     last_metadata_changed |-> time_now, kind |-> kind,
     mode |-> mode, hardlinks |-> 0, uid |-> ProcUid]

---------------------------------------------------------------------------
(* nodes.rs: Option<InodeAttributes> is <<>> (None) or <<x>> (Some(x)) *)

\* FileNode::new, given the digest the hasher yields
FileNode_new(hash, ino, attr) ==
    [hash |-> hash,
     file_attr |-> IF attr # <<>> THEN [attr[1] EXCEPT !.inode = ino]
                   ELSE new_file_attr(ino, "File", 420),
     back_links |-> <<>>]

\* TagNode::new, given the uuid Uuid::new_v4() yields
TagNode_new(id, ino, attr) ==
    [id |-> id,
     dir_attr |-> IF attr # <<>> THEN [attr[1] EXCEPT !.inode = ino]
                  ELSE new_file_attr(ino, "Directory", 420),
     back_links |-> <<>>,
     dir_links |-> {}]

\* a NameNode::new that records every link as a link to a file
NameNode_new_file(id, name, link) ==
    [id |-> id, name |-> name, link |-> [tag |-> "File", key |-> link.key]]

\* NameNode::new, given the uuid Uuid::new_v4() yields
NameNode_new(id, name, link) == [id |-> id, name |-> name, link |-> link]

\* an add_file that leaves the outgoing set as it is
add_file_noop(t, name_node) == t

\* an add_file that keeps only the new id in the outgoing set
add_file_only(t, name_node) == [t EXCEPT !.dir_links = {name_node.id}]

\* TagNode::add_file
add_file(t, name_node) == [t EXCEPT !.dir_links = @ \cup {name_node.id}]

\* enum Node and enum INode
NodeFile(hash) == [tag |-> "File", key |-> hash]
NodeTag(id) == [tag |-> "Tag", key |-> id]
INodeFile(f) == [tag |-> "File", node |-> f]
INodeTag(t) == [tag |-> "Tag", node |-> t]
Err(errno) == [tag |-> "Err", errno |-> errno]

\* INode::to_node
to_node(inode) ==
    IF inode.tag = "File" THEN NodeFile(inode.node.hash) ELSE NodeTag(inode.node.id)

\* the attributes of a loaded node (the match arms on INode::File / INode::Tag)
attr_of(inode) ==
    IF inode.tag = "File" THEN inode.node.file_attr ELSE inode.node.dir_attr

---------------------------------------------------------------------------
(* mod.rs: the store *)

EmptyStore ==
    [filenodes |-> <<>>, tagnodes |-> <<>>, namenodes |-> <<>>,
     namenodes_id |-> <<>>, inodes |-> <<>>]

\* write key k of a directory: create or truncate, then write
Put(dir, k, v) == (k :> v) @@ dir

\* rewrite_symlink: remove the link if it exists, then create it
rewrite_symlink(s, path, ino) == [s EXCEPT !.inodes = Put(@, ino, path)]

\* a get_inode that reports a missing inode link as an I/O error
get_inode_eio(s, ino) ==
    IF ino \in DOMAIN s.inodes
    THEN LET path == s.inodes[ino] IN
         IF path.dir = "tagnodes" /\ path.key \in DOMAIN s.tagnodes
         THEN INodeTag(s.tagnodes[path.key])
         ELSE IF path.dir = "filenodes" /\ path.key \in DOMAIN s.filenodes
         THEN INodeFile(s.filenodes[path.key])
         ELSE Err("EIO")
    ELSE Err("EIO")

\* TagFS::get_inode
get_inode(s, ino) ==
    IF ino \in DOMAIN s.inodes
    THEN LET path == s.inodes[ino] IN
         IF path.dir = "tagnodes" /\ path.key \in DOMAIN s.tagnodes
         THEN INodeTag(s.tagnodes[path.key])
         ELSE IF path.dir = "filenodes" /\ path.key \in DOMAIN s.filenodes
         THEN INodeFile(s.filenodes[path.key])
         ELSE Err("ENOENT")
    ELSE Err("ENOENT")

\* TagFS::get_node_from_inode
get_node_from_inode(s, ino) ==
    LET r == get_inode(s, ino) IN
    IF r.tag = "File" THEN NodeFile(r.node.hash)
    ELSE IF r.tag = "Tag" THEN NodeTag(r.node.id)
    ELSE Err("ENOENT")

\* TagFS::get_name_node
get_name_node(s, id) ==
    IF id \in DOMAIN s.namenodes_id
    THEN [tag |-> "Name", node |-> s.namenodes_id[id]]
    ELSE Err("ENOENT")

\* TagFS::get_node
get_node(s, link_node) ==
    IF link_node.tag = "File"
    THEN IF link_node.key \in DOMAIN s.filenodes
         THEN INodeFile(s.filenodes[link_node.key]) ELSE Err("ENOENT")
    ELSE IF link_node.key \in DOMAIN s.tagnodes
         THEN INodeTag(s.tagnodes[link_node.key]) ELSE Err("ENOENT")

\* TagFS::write_file_node
write_file_node(s, f) ==
    rewrite_symlink([s EXCEPT !.filenodes = Put(@, f.hash, f)],
                    [dir |-> "filenodes", key |-> f.hash], f.file_attr.inode)

\* TagFS::write_tag_node
write_tag_node(s, t) ==
    rewrite_symlink([s EXCEPT !.tagnodes = Put(@, t.id, t)],
                    [dir |-> "tagnodes", key |-> t.id], t.dir_attr.inode)

\* TagFS::insert_inode
insert_inode(s, inode) ==
    IF inode.tag = "Tag" THEN write_tag_node(s, inode.node)
    ELSE write_file_node(s, inode.node)

\* TagFS::insert_name_node
insert_name_node(s, name_node) ==
    LET b == IF name_node.name \in DOMAIN s.namenodes
             THEN s.namenodes[name_node.name] ELSE {}
    IN [s EXCEPT !.namenodes = Put(@, name_node.name, b \cup {name_node.id}),
                 !.namenodes_id = Put(@, name_node.id, name_node)]

\* an iteration in descending order
RECURSIVE btree_iter_desc(_)
btree_iter_desc(S) ==
    IF S = {} THEN <<>>
    ELSE LET m == CHOOSE x \in S : \A y \in S : x >= y
         IN <<m>> \o btree_iter_desc(S \ {m})

\* the iteration order of a BTreeSet<Uuid>: ascending
RECURSIVE btree_iter(_)
btree_iter(S) ==
    IF S = {} THEN <<>>
    ELSE LET m == CHOOSE x \in S : \A y \in S : x <= y
         IN <<m>> \o btree_iter(S \ {m})

\* TagFS::search_name: the loop over tag_node.dir_links, from position i
RECURSIVE search_from(_, _, _, _)
search_from(s, ids, i, os_name) ==
    IF i > Len(ids) THEN Err("None")
    ELSE LET nn == get_name_node(s, ids[i]) IN
         IF nn.tag = "Name" /\ nn.node.name = os_name
            /\ get_node(s, nn.node.link).tag # "Err"
         THEN get_node(s, nn.node.link)
         ELSE search_from(s, ids, i + 1, os_name)

search_name(s, tag_node, os_name) ==
    search_from(s, btree_iter(tag_node.dir_links), 1, os_name)

---------------------------------------------------------------------------
(* mod.rs: mode bits (u32 arithmetic) *)

RECURSIVE BitAnd(_, _)
BitAnd(a, b) ==
    IF a = 0 \/ b = 0 THEN 0
    ELSE (a % 2) * (b % 2) + 2 * BitAnd(a \div 2, b \div 2)

\* a & !m on u32: the bits of a that are not in m
BitClear(a, m) == a - BitAnd(a, m)

\* a sanitising that clears the two bits for every uid
sanitise_mode_always(mode, uid) == BitClear(mode, S_ISUID + S_ISGID)

\* mode &= !(libc::S_ISUID | libc::S_ISGID) as u32, when req.uid() != 0
sanitise_mode(mode, uid) ==
    IF uid # 0 THEN BitClear(mode, S_ISUID + S_ISGID) ELSE mode

\* a match whose last arm makes a regular file
kind_of_mode_default(file_type) ==
    IF file_type = S_IFDIR THEN "Directory" ELSE "File"

\* the match on mode & S_IFMT in create and mknod; the last arm replies
\* ENOSYS and is unimplemented!()
kind_of_mode(file_type) ==
    IF file_type = S_IFREG THEN "File"
    ELSE IF file_type = S_IFDIR THEN "Directory"
    ELSE "Unsupported"

\* mode as u16
as_u16(mode) == mode % 65536

---------------------------------------------------------------------------
(* mod.rs: identifier allocation *)

\* a get_inode_cur that skips a number
get_inode_cur_skip(ic) == [a |-> ic, inode_cur |-> ic + 2]

\* a counter that hands out its value and stays
get_inode_cur_stay(ic) == [a |-> ic, inode_cur |-> ic]

\* TagFS::get_inode_cur
get_inode_cur(ic) == [a |-> ic, inode_cur |-> ic + 1]

\* TagFS::get_filehandle_cur
get_filehandle_cur(fc) == [a |-> fc, filehandle_cur |-> fc + 1]

\* an allocation that gives a new tag the inode number handed out last
allocate_next_inode_again(h, ic, inode_kind, attr, tag_uuid) ==
    LET n == get_inode_cur(ic) IN
    IF inode_kind = "File"
    THEN LET d == calculate_hash(h) IN
         [inode |-> INodeFile(FileNode_new(d.hash, n.a, attr)),
          hasher |-> d.hasher, inode_cur |-> n.inode_cur]
    ELSE [inode |-> INodeTag(TagNode_new(tag_uuid, n.a - 1, attr)),
          hasher |-> h, inode_cur |-> n.inode_cur]

\* TagFS::allocate_next_inode (FileKind::Symlink is unimplemented!() and is
\* never passed: create and mknod derive the kind as File or Directory)
allocate_next_inode(h, ic, inode_kind, attr, tag_uuid) ==
    LET n == get_inode_cur(ic) IN
    IF inode_kind = "File"
    THEN LET d == calculate_hash(h) IN
         [inode |-> INodeFile(FileNode_new(d.hash, n.a, attr)),
          hasher |-> d.hasher, inode_cur |-> n.inode_cur]
    ELSE [inode |-> INodeTag(TagNode_new(tag_uuid, n.a, attr)),
          hasher |-> h, inode_cur |-> n.inode_cur]

---------------------------------------------------------------------------
(* Uuid::new_v4(): the environment hands out uuids never seen before.      *)
(* Tag uuids are only ever compared for equality (they are keys), so the   *)
(* next unused one is taken.  NameNode uuids are ordered by the BTreeSet   *)
(* of a tag, so any unused one of the pool may come.  Only the order of    *)
(* the uuids among each other is observable, so the first one drawn on an  *)
(* empty store is the middle of the pool: the later ones fall on either    *)
(* side of it.                                                             *)

UsedNameUuids(s) ==
    DOMAIN s.namenodes_id
        \cup UNION {s.tagnodes[t].dir_links : t \in DOMAIN s.tagnodes}

new_v4_tag(s) == Cardinality(DOMAIN s.tagnodes) + 1

\* the sequences of distinct unused uuids of length n
FirstUuid == (MaxUuid + 1) \div 2

new_v4_names(s, n) ==
    LET F == IF UsedNameUuids(s) = {} THEN {FirstUuid}
             ELSE Uuids \ UsedNameUuids(s) IN
    {u \in [1..n -> F] : \A i, j \in 1..n : i # j => u[i] # u[j]}

---------------------------------------------------------------------------
(* requests and replies *)

TTL == 1
BLOCK_SIZE == 512

\* impl From<FileKind> for fuser::FileType
into_file_type(kind) ==
    IF kind = "File" THEN "RegularFile"
    ELSE IF kind = "Directory" THEN "Directory" ELSE "Symlink"

\* impl From<InodeAttributes> for fuser::FileAttr
into_file_attr(attrs) ==
    [ino |-> attrs.inode, size |-> attrs.size,
     blocks |-> (attrs.size + BLOCK_SIZE - 1) \div BLOCK_SIZE,
     atime |-> system_time_from_time(attrs.last_accessed[1], attrs.last_accessed[2]),
     mtime |-> system_time_from_time(attrs.last_modified[1], attrs.last_modified[2]),
     ctime |-> system_time_from_time(attrs.last_metadata_changed[1],
                                     attrs.last_metadata_changed[2]),
     kind |-> into_file_type(attrs.kind), perm |-> attrs.mode,
     nlink |-> attrs.hardlinks, uid |-> attrs.uid]

\* the FileAttr of a reply that carries none
NoAttr ==
    [ino |-> 0, size |-> 0, blocks |-> 0, atime |-> UNIX_EPOCH,
     mtime |-> UNIX_EPOCH, ctime |-> UNIX_EPOCH, kind |-> "None", perm |-> 0,
     nlink |-> 0, uid |-> 0]

Req(op, ino, name, mode, uid, offset, cap) ==
    [op |-> op, ino |-> ino, name |-> name, mode |-> mode, uid |-> uid,
     offset |-> offset, cap |-> cap]
NoReq == Req("none", 0, "", 0, 0, 0, 0)

Reply(kind, errno, ttl, attr, fh, entries) ==
    [kind |-> kind, errno |-> errno, ttl |-> ttl, attr |-> attr, fh |-> fh,
     entries |-> entries]
NoReply == Reply("none", "", 0, NoAttr, 0, <<>>)
ReplyError(errno) == Reply("error", errno, 0, NoAttr, 0, <<>>)
ReplyEntry(ttl, attr) == Reply("entry", "", ttl, attr, 0, <<>>)
ReplyCreated(ttl, attr, fh) == Reply("created", "", ttl, attr, fh, <<>>)
ReplyAttr(ttl, attr) == Reply("attr", "", ttl, attr, 0, <<>>)
ReplyDirectory(entries) == Reply("dir", "", 0, NoAttr, 0, entries)

---------------------------------------------------------------------------
(* mod.rs: the callbacks as functions of the store and the engine.  Each   *)
(* yields the store and engine it leaves, the reply, and whether the       *)
(* callback panicked after replying.  us is the sequence of uuids that     *)
(* NameNode::new draws, in program order; drawn is how many were drawn.    *)

Outcome(s, h, ic, fc, rep, panicked, drawn) ==
    [store |-> s, hasher |-> h, inode_cur |-> ic, filehandle_cur |-> fc,
     reply |-> rep, panicked |-> panicked, drawn |-> drawn]

uuid_at(us, i) == IF i <= Len(us) THEN us[i] ELSE 0

\* an init that allocates the inode number of the seed file before the root's
TagFS_init_file_first(s, h, ic, fc, us) ==
    LET d == calculate_hash(h)
        n1 == get_inode_cur(ic)
        file_node == FileNode_new(d.hash, n1.a, <<>>)
        n2 == get_inode_cur(n1.inode_cur)
        fake_root0 == TagNode_new(new_v4_tag(s), n2.a, <<>>)
        name_node == NameNode_new(uuid_at(us, 1), "file1", NodeFile(file_node.hash))
        fake_root == add_file(fake_root0, name_node)
        s1 == insert_inode(s, INodeFile(file_node))
        s2 == insert_inode(s1, INodeTag(fake_root))
        s3 == insert_name_node(s2, name_node)
    IN Outcome(s3, d.hasher, n2.inode_cur, fc, NoReply, FALSE, 1)

\* TagFS::init
TagFS_init(s, h, ic, fc, us) ==
    LET n1 == get_inode_cur(ic)
        fake_root0 == TagNode_new(new_v4_tag(s), n1.a, <<>>)
        d == calculate_hash(h)
        n2 == get_inode_cur(n1.inode_cur)
        file_node == FileNode_new(d.hash, n2.a, <<>>)
        name_node == NameNode_new(uuid_at(us, 1), "file1", NodeFile(file_node.hash))
        fake_root == add_file(fake_root0, name_node)
        s1 == insert_inode(s, INodeFile(file_node))
        s2 == insert_inode(s1, INodeTag(fake_root))
        s3 == insert_name_node(s2, name_node)
    IN Outcome(s3, d.hasher, n2.inode_cur, fc, NoReply, FALSE, 1)

\* the new node of create/mknod with its "." and ".." entries
with_dot_entries(inode, parent_node, us) ==
    IF inode.tag = "Tag"
    THEN LET t1 == add_file(inode.node,
                            NameNode_new(uuid_at(us, 1), ".", NodeTag(inode.node.id)))
             t2 == add_file(t1, NameNode_new(uuid_at(us, 2), "..", parent_node))
         IN INodeTag(t2)
    ELSE inode

\* how many uuids with_dot_entries draws
dot_draws(inode) == IF inode.tag = "Tag" THEN 2 ELSE 0

\* an entry in the parent whose NameNode record is never written
link_in_parent_unnamed(s, parent_inode, name, inode, u) ==
    IF parent_inode.tag = "Tag"
    THEN LET name_node == NameNode_new(u, name, to_node(inode))
             t == add_file(parent_inode.node, name_node)
         IN insert_inode(s, INodeTag(t))
    ELSE s

\* create/mknod: the entry in the parent (only when the parent is a tag)
link_in_parent(s, parent_inode, name, inode, u) ==
    IF parent_inode.tag = "Tag"
    THEN LET name_node == NameNode_new(u, name, to_node(inode))
             t == add_file(parent_inode.node, name_node)
         IN insert_inode(insert_name_node(s, name_node), INodeTag(t))
    ELSE s

\* how many uuids link_in_parent draws
link_draws(parent_inode) == IF parent_inode.tag = "Tag" THEN 1 ELSE 0

\* how many uuids a create or mknod draws: none when it replies an error
make_draws(s, parent, mode0) ==
    LET p == get_inode(s, parent) IN
    IF p.tag = "Err" \/ kind_of_mode(BitAnd(mode0, S_IFMT)) = "Unsupported" THEN 0
    ELSE (IF kind_of_mode(BitAnd(mode0, S_IFMT)) = "Directory" THEN 2 ELSE 0)
         + link_draws(p)

\* TagFS::create
TagFS_create(s, h, ic, fc, parent, name, mode0, uid, us) ==
    LET p == get_inode(s, parent) IN
    IF p.tag = "Err"
    THEN Outcome(s, h, ic, fc, ReplyError(p.errno), FALSE, 0)
    ELSE
    LET \* the parent's attributes, copied out of the loaded node; the copy is
        \* refreshed and not used again
        parent_attrs == [attr_of(p) EXCEPT !.last_modified = time_now,
                                           !.last_metadata_changed = time_now]
        mode == sanitise_mode(mode0, uid)
        file_type == kind_of_mode(BitAnd(mode, S_IFMT))
    IN
    IF file_type = "Unsupported"
    THEN Outcome(s, h, ic, fc, ReplyError("ENOSYS"), TRUE, 0)
    ELSE
    LET attrs == [inode |-> 0, open_file_handles |-> 1, size |-> 0,
                  last_accessed |-> time_now, last_modified |-> time_now,
                  last_metadata_changed |-> time_now, kind |-> file_type, mode |-> as_u16(mode), hardlinks |-> 1,
                  uid |-> uid]
        al == allocate_next_inode(h, ic, file_type, <<attrs>>, new_v4_tag(s))
        parent_node == get_node_from_inode(s, parent)
        inode == with_dot_entries(al.inode, parent_node, us)
        parent_inode == get_inode(s, parent)
        s1 == link_in_parent(s, parent_inode, name, inode,
                             uuid_at(us, dot_draws(inode) + 1))
        s2 == insert_inode(s1, inode)
        fh == get_filehandle_cur(fc)
    IN Outcome(s2, al.hasher, al.inode_cur, fh.filehandle_cur,
               ReplyCreated(0, into_file_attr(attr_of(inode)), fh.a), FALSE,
               dot_draws(inode) + link_draws(parent_inode))

\* TagFS::mknod
TagFS_mknod(s, h, ic, fc, parent, name, mode0, uid, us) ==
    LET file_type == kind_of_mode(BitAnd(mode0, S_IFMT)) IN
    IF file_type = "Unsupported"
    THEN Outcome(s, h, ic, fc, ReplyError("ENOSYS"), TRUE, 0)
    ELSE
    LET p == get_inode(s, parent) IN
    IF p.tag = "Err"
    THEN Outcome(s, h, ic, fc, ReplyError(p.errno), FALSE, 0)
    ELSE
    LET \* the parent's attributes, copied out of the loaded node; the copy is
        \* refreshed and not used again
        parent_attrs == [attr_of(p) EXCEPT !.last_modified = time_now,
                                           !.last_metadata_changed = time_now]
        mode == sanitise_mode(mode0, uid)
        attrs == [inode |-> 0, open_file_handles |-> 0, size |-> 0,
                  last_accessed |-> time_now, last_modified |-> time_now,
                  last_metadata_changed |-> time_now, kind |-> file_type, mode |-> as_u16(mode), hardlinks |-> 1,
                  uid |-> uid]
        al == allocate_next_inode(h, ic, file_type, <<attrs>>, new_v4_tag(s))
        parent_node == get_node_from_inode(s, parent)
        inode == with_dot_entries(al.inode, parent_node, us)
        parent_inode == get_inode(s, parent)
        s1 == link_in_parent(s, parent_inode, name, inode,
                             uuid_at(us, dot_draws(inode) + 1))
        s2 == insert_inode(s1, inode)
    IN Outcome(s2, al.hasher, al.inode_cur, fc,
               ReplyEntry(0, into_file_attr(attr_of(inode))), FALSE,
               dot_draws(inode) + link_draws(parent_inode))

\* TagFS::lookup
TagFS_lookup(s, parent, name) ==
    LET x == get_inode(s, parent) IN
    IF x.tag = "Tag"
    THEN LET node == search_name(s, x.node, name) IN
         IF node.tag # "Err"
         THEN ReplyEntry(TTL, into_file_attr(attr_of(node)))
         ELSE ReplyError("ENOENT")
    ELSE ReplyError("ENOENT")

\* TagFS::getattr
TagFS_getattr(s, ino) ==
    LET node == get_inode(s, ino) IN
    IF node.tag # "Err"
    THEN ReplyAttr(TTL, into_file_attr(attr_of(node)))
    ELSE ReplyError("ENOENT")

\* a loop whose next-offset counts the entries emitted so far
RECURSIVE readdir_from_emitted(_, _, _, _, _, _)
readdir_from_emitted(s, entries, offset, index, cap, buf) ==
    IF offset + index + 1 > Len(entries) THEN buf
    ELSE LET nn == get_name_node(s, entries[offset + index + 1]) IN
         IF nn.tag # "Name"
         THEN readdir_from_emitted(s, entries, offset, index + 1, cap, buf)
         ELSE LET node == get_node(s, nn.node.link) IN
              IF node.tag = "Err"
              THEN readdir_from_emitted(s, entries, offset, index + 1, cap, buf)
              ELSE IF Len(buf) >= cap THEN buf
              ELSE readdir_from_emitted(s, entries, offset, index + 1, cap,
                       Append(buf, [ino |-> attr_of(node).inode,
                                    offset |-> offset + Len(buf) + 1,
                                    kind |-> into_file_type(attr_of(node).kind),
                                    name |-> nn.node.name]))

\* TagFS::readdir: the loop over entries.iter().skip(offset).enumerate();
\* reply.add refuses the entry and reports a full buffer once cap entries
\* are in it
RECURSIVE readdir_from(_, _, _, _, _, _)
readdir_from(s, entries, offset, index, cap, buf) ==
    IF offset + index + 1 > Len(entries) THEN buf
    ELSE LET nn == get_name_node(s, entries[offset + index + 1]) IN
         IF nn.tag # "Name"
         THEN readdir_from(s, entries, offset, index + 1, cap, buf)
         ELSE LET node == get_node(s, nn.node.link) IN
              IF node.tag = "Err"
              THEN readdir_from(s, entries, offset, index + 1, cap, buf)
              ELSE IF Len(buf) >= cap THEN buf
              ELSE readdir_from(s, entries, offset, index + 1, cap,
                       Append(buf, [ino |-> attr_of(node).inode,
                                    offset |-> offset + index + 1,
                                    kind |-> into_file_type(attr_of(node).kind),
                                    name |-> nn.node.name]))

TagFS_readdir(s, ino, offset, cap) ==
    LET x == get_inode(s, ino) IN
    IF x.tag = "Tag"
    THEN ReplyDirectory(readdir_from(s, btree_iter(x.node.dir_links), offset, 0, cap, <<>>))
    ELSE ReplyError("ENOENT")

---------------------------------------------------------------------------
(* The state machine *)

\* the state after TagFS::new() in the first process, on an empty data directory
Init ==
    /\ store = EmptyStore
    /\ hasher = EmptyHasher
    /\ inode_cur = 1
    /\ filehandle_cur = 1
    /\ phase = "constructed"
    /\ mounts = 1
    /\ req = NoReq
    /\ reply = NoReply
    /\ clock = 0

\* what a callback leaves behind
Commit(o, r) ==
    /\ store' = o.store
    /\ hasher' = o.hasher
    /\ inode_cur' = o.inode_cur
    /\ filehandle_cur' = o.filehandle_cur
    /\ phase' = IF o.panicked THEN "aborted" ELSE "serving"
    /\ req' = r
    /\ reply' = o.reply
    /\ UNCHANGED <<mounts, clock>>

\* a callback that only reads the store
Answer(rep, r) ==
    /\ req' = r
    /\ reply' = rep
    /\ UNCHANGED <<store, hasher, inode_cur, filehandle_cur, phase, mounts, clock>>

\* TagFS::new in a later process (main.rs), on the data directory as it is:
\* create_dir_all leaves existing directories alone
TagFS_new ==
    /\ phase \in {"destroyed", "aborted"}
    /\ mounts < MaxMounts
    /\ hasher' = EmptyHasher
    /\ inode_cur' = 1
    /\ filehandle_cur' = 1
    /\ phase' = "constructed"
    /\ mounts' = mounts + 1
    /\ req' = NoReq
    /\ reply' = NoReply
    /\ UNCHANGED <<store, clock>>

\* The ids of "." and ".." enter the store only as members of the set
\* dir_links of the new tag, so the draws (a, b) and (b, a) leave the same
\* store: one draw of each such pair is taken.
DotsInOrder(us, mode) ==
    kind_of_mode(BitAnd(mode, S_IFMT)) = "Directory" /\ Len(us) >= 2 => us[1] < us[2]

init ==
    /\ phase = "constructed"
    /\ \E us \in new_v4_names(store, 1) :
         \E o \in {TagFS_init(store, hasher, inode_cur, filehandle_cur, us)} :
           Commit(o, Req("init", 0, "", 0, 0, 0, 0))

create ==
    /\ phase = "serving"
    /\ \E parent \in Inos, name \in Names, mode \in Modes, uid \in Uids :
         \E n \in {make_draws(store, parent, mode)} :
           /\ inode_cur <= MaxInode \/ n = 0
           /\ \E us \in new_v4_names(store, n) :
                /\ DotsInOrder(us, mode)
                /\ \E o \in {TagFS_create(store, hasher, inode_cur, filehandle_cur,
                                       parent, name, mode, uid, us)} :
                     /\ o.inode_cur <= MaxInode + 1
                     /\ o.drawn = n
                     /\ Commit(o, Req("create", parent, name, mode, uid, 0, 0))

mknod ==
    /\ phase = "serving"
    /\ \E parent \in Inos, name \in Names, mode \in Modes, uid \in Uids :
         \E n \in {make_draws(store, parent, mode)} :
           /\ inode_cur <= MaxInode \/ n = 0
           /\ \E us \in new_v4_names(store, n) :
                /\ DotsInOrder(us, mode)
                /\ \E o \in {TagFS_mknod(store, hasher, inode_cur, filehandle_cur,
                                       parent, name, mode, uid, us)} :
                     /\ o.inode_cur <= MaxInode + 1
                     /\ o.drawn = n
                     /\ Commit(o, Req("mknod", parent, name, mode, uid, 0, 0))

lookup ==
    /\ phase = "serving"
    /\ \E parent \in Inos, name \in Names :
         Answer(TagFS_lookup(store, parent, name),
                Req("lookup", parent, name, 0, 0, 0, 0))

getattr ==
    /\ phase = "serving"
    /\ \E ino \in Inos :
         Answer(TagFS_getattr(store, ino), Req("getattr", ino, "", 0, 0, 0, 0))

readdir ==
    /\ phase = "serving"
    /\ \E ino \in Inos, offset \in Offsets, cap \in BufCaps :
         Answer(TagFS_readdir(store, ino, offset, cap),
                Req("readdir", ino, "", 0, 0, offset, cap))

\* TagFS::destroy: nothing is done; the process ends
destroy ==
    /\ phase = "serving"
    /\ phase' = "destroyed"
    /\ req' = Req("destroy", 0, "", 0, 0, 0, 0)
    /\ reply' = NoReply
    /\ UNCHANGED <<store, hasher, inode_cur, filehandle_cur, mounts, clock>>

(* The callbacks that only read leave every variable but req and reply    *)
(* alone: what they would reply in a state is TagFS_lookup, TagFS_getattr  *)
(* and TagFS_readdir of its store.  The first specification holds the       *)
(* callbacks that change the store or the process, the second the reading  *)
(* callbacks as well.                                                       *)

\* one process on a fresh data directory: the callbacks that write
Next == init \/ create \/ mknod \/ destroy
Spec == Init /\ [][Next]_vars

Mutate == Next

\* one process on a fresh data directory: all callbacks
NextRead == Mutate \/ lookup \/ getattr \/ readdir
SpecRead == Init /\ [][NextRead]_vars

\* processes one after the other on the same data directory
NextRemount == Mutate \/ lookup \/ TagFS_new
SpecRemount == Init /\ [][NextRemount]_vars

---------------------------------------------------------------------------
(* Properties *)

\* the last callback was a create or a mknod
IsMake(r) == r.op \in {"create", "mknod"}

\* the callback replied with a new node
Made(rep) == rep.kind \in {"created", "entry"}

\* the ids in the outgoing set of tag_node whose NameNode record carries name
NamedEntries(s, tag_node, name) ==
    {u \in tag_node.dir_links :
        /\ get_name_node(s, u).tag = "Name"
        /\ get_name_node(s, u).node.name = name}

\* the inode numbers of the tags that hold an entry for the tag of inode number d
ParentsOf(s, d) ==
    {s.tagnodes[t].dir_attr.inode : t \in
        {t \in DOMAIN s.tagnodes :
            \E u \in s.tagnodes[t].dir_links :
                /\ get_name_node(s, u).tag = "Name"
                /\ get_name_node(s, u).node.name \notin {".", ".."}
                /\ get_name_node(s, u).node.link = to_node(get_inode(s, d))}}

\* C1: every name id in the outgoing set of every stored TagNode has a stored
\* NameNode record, and the link target of that record resolves to a stored
\* node; the "." and ".." ids of the tags create and mknod make included.
C1_OutgoingEntriesResolve ==
    \A t \in DOMAIN store.tagnodes :
        \A u \in store.tagnodes[t].dir_links :
            /\ get_name_node(store, u).tag = "Name"
            /\ get_node(store, get_name_node(store, u).node.link).tag # "Err"

\* C2: readdir(d, 0) of a directory d that create or mknod made in the tag P
\* emits an entry "." with the inode number of d and an entry ".." with the
\* inode number of P (the reply buffer holding all entries of d).
C2_ReaddirDotEntries ==
    ( /\ req.op = "readdir"
      /\ req.offset = 0
      /\ req.ino # 1
      /\ get_inode(store, req.ino).tag = "Tag"
      /\ ParentsOf(store, req.ino) # {}
      /\ Cardinality(get_inode(store, req.ino).node.dir_links) <= req.cap )
    => /\ reply.kind = "dir"
       /\ \E i \in 1..Len(reply.entries) :
            /\ reply.entries[i].name = "."
            /\ reply.entries[i].ino = req.ino
       /\ \E i \in 1..Len(reply.entries) :
            /\ reply.entries[i].name = ".."
            /\ reply.entries[i].ino \in ParentsOf(store, req.ino)

\* C3: init on a store that already holds a root leaves the root TagNode
\* record and its outgoing set as they were, so every lookup in the root
\* answers as before and no second "file1" is seeded.
C3_InitIdempotent ==
    [][ (req'.op = "init" /\ 1 \in DOMAIN store.inodes)
        => /\ get_inode(store', 1) = get_inode(store, 1)
           /\ \A name \in Names :
                TagFS_lookup(store', 1, name) = TagFS_lookup(store, 1, name) ]_vars

C5_GetInodeReturnsOwnRecord ==
    \A n \in DOMAIN store.inodes :
        /\ get_inode(store, n).tag # "Err"
        /\ attr_of(get_inode(store, n)).inode = n

\* C6: every create or mknod of a regular file yields a FileNode whose hash
\* differs from the hash of every FileNode already in the store.
C6_FreshHashPerFile ==
    [][ (IsMake(req') /\ Made(reply') /\ reply'.attr.kind = "RegularFile")
        => get_inode(store', reply'.attr.ino).node.hash
               \notin DOMAIN store.filenodes ]_vars

\* C7: in one mount of a fresh store, every inode number below inode_cur
\* resolves through get_inode to a node, and every inode number from
\* inode_cur on resolves to none.
C7_AllocatedInodesResolve ==
    \A n \in Inos :
        /\ n < inode_cur => get_inode(store, n).tag \in {"File", "Tag"}
        /\ n >= inode_cur => get_inode(store, n) = Err("ENOENT")

\* a mknod has allocated the last inode number of the bound, and getattr
\* of it replies its attributes
C7_Witness ==
    /\ inode_cur = MaxInode + 1
    /\ req.op = "mknod"
    /\ reply.kind = "entry"
    /\ reply.attr.ino = MaxInode
    /\ TagFS_getattr(store, MaxInode) = ReplyAttr(TTL, reply.attr)

\* C8: a create or mknod whose parent inode resolves to a FileNode fails with
\* ENOTDIR: no inode number is allocated and the store is left as it was.
C8_FileParentIsNotDir ==
    [][ (IsMake(req') /\ get_inode(store, req'.ino).tag = "File")
        => /\ reply' = ReplyError("ENOTDIR")
           /\ store' = store
           /\ inode_cur' = inode_cur ]_vars

\* C9: a create or mknod with a regular-file or directory mode whose parent
\* inode resolves to no node replies ENOENT, allocates no inode number and
\* no file handle, and leaves the store as it was.
C9_MissingParentIsNoEnt ==
    [][ ( /\ IsMake(req')
          /\ BitAnd(req'.mode, S_IFMT) \in {S_IFREG, S_IFDIR}
          /\ get_inode(store, req'.ino).tag = "Err" )
        => /\ reply' = ReplyError("ENOENT")
           /\ store' = store
           /\ inode_cur' = inode_cur
           /\ filehandle_cur' = filehandle_cur ]_vars

\* a create or mknod of a supported kind was refused for its missing parent
C9_Witness ==
    /\ IsMake(req)
    /\ BitAnd(req.mode, S_IFMT) \in {S_IFREG, S_IFDIR}
    /\ get_inode(store, req.ino).tag = "Err"
    /\ reply = ReplyError("ENOENT")

\* C10: a create or mknod on a tag parent whose mode is of a kind other than
\* regular file or directory replies ENOSYS, allocates no inode number and
\* writes nothing.
C10_UnsupportedKindIsNoSys ==
    [][ ( /\ IsMake(req')
          /\ BitAnd(req'.mode, S_IFMT) \notin {S_IFREG, S_IFDIR}
          /\ get_inode(store, req'.ino).tag = "Tag" )
        => /\ reply' = ReplyError("ENOSYS")
           /\ store' = store
           /\ inode_cur' = inode_cur
           /\ filehandle_cur' = filehandle_cur ]_vars

\* a create or mknod of a symlink or a fifo in a tag was refused
C10_Witness ==
    /\ IsMake(req)
    /\ BitAnd(req.mode, S_IFMT) \in {S_IFLNK, S_IFIFO}
    /\ get_inode(store, req.ino).tag = "Tag"
    /\ reply = ReplyError("ENOSYS")

\* the ids in a back-link list
BackLinks(inode) == {inode.node.back_links[i] : i \in 1..Len(inode.node.back_links)}

\* C11: back-references agree with forward edges: every stored NameNode is in
\* the back-link list of the node its link names.
C11_BackLinksMatchEntries ==
    \A u \in DOMAIN store.namenodes_id :
        /\ get_node(store, store.namenodes_id[u].link).tag # "Err"
        /\ u \in BackLinks(get_node(store, store.namenodes_id[u].link))

\* C12: after every completed request, also after a remount of the store,
\* every NameNode record links a node that exists: File(h) a FileNode record
\* under h, Tag(id) a TagNode record under id.
C12_NameNodeTargetsExist ==
    \A u \in DOMAIN store.namenodes_id :
        LET link == store.namenodes_id[u].link IN
        /\ link.tag = "File" => link.key \in DOMAIN store.filenodes
        /\ link.tag = "Tag" => link.key \in DOMAIN store.tagnodes

\* a second engine has made a node on a store that holds the entries of the
\* first: the two seed entries and one more
C12_Witness ==
    /\ mounts = 2
    /\ IsMake(req)
    /\ Made(reply)
    /\ Cardinality(DOMAIN store.namenodes_id) >= 3

\* C13: from the end of the first init on, over all operations and remounts,
\* inode 1 resolves to a TagNode whose inode field is 1.
C13_RootIsTagOne ==
    (phase # "constructed" \/ mounts > 1)
    => /\ get_inode(store, 1).tag = "Tag"
       /\ get_inode(store, 1).node.dir_attr.inode = 1

\* a create or mknod in a second mount has replied on a store on which
\* inode 1 is the root
C13_Witness ==
    /\ mounts = 2
    /\ IsMake(req)
    /\ Made(reply)
    /\ get_inode(store, 1).tag = "Tag"
    /\ get_inode(store, 1).node.dir_attr.inode = 1

\* C14: on a fresh mount getattr(1) replies the attributes of the root with
\* a TTL of one second: kind Directory, inode 1, and 0o755 in the low nine
\* bits of the permissions.
C14_RootAttr ==
    (req.op = "getattr" /\ req.ino = 1 /\ mounts = 1)
    => /\ reply.kind = "attr"
       /\ reply.ttl = TTL
       /\ reply.attr.kind = "Directory"
       /\ reply.attr.ino = 1
       /\ reply.attr.perm % 512 = 493

\* C15: on a fresh mount, before any create or mknod, the root holds exactly
\* one entry: lookup(1, "file1") replies a regular file with inode 2, and
\* readdir(1, 0) emits (inode 2, offset 1, regular file, "file1") and no more.
C15_FreshRootHoldsFile1 ==
    inode_cur = 3
    => /\ get_inode(store, 1).tag = "Tag"
       /\ Cardinality(get_inode(store, 1).node.dir_links) = 1
       /\ TagFS_lookup(store, 1, "file1").kind = "entry"
       /\ TagFS_lookup(store, 1, "file1").attr.kind = "RegularFile"
       /\ TagFS_lookup(store, 1, "file1").attr.ino = 2
       /\ \A cap \in BufCaps :
            TagFS_readdir(store, 1, 0, cap)
                = ReplyDirectory(<<[ino |-> 2, offset |-> 1,
                                    kind |-> "RegularFile", name |-> "file1"]>>)

\* init has run on the empty store and the seed entry is found
C15_Witness ==
    /\ req.op = "init"
    /\ inode_cur = 3
    /\ TagFS_lookup(store, 1, "file1").attr.ino = 2
    /\ Len(TagFS_readdir(store, 1, 0, 1).entries) = 1

\* the ids of the entries of tag_node that lookup can answer with: the
\* NameNode record is stored, its name is name, and its target resolves
Candidates(s, tag_node, name) ==
    {u \in NamedEntries(s, tag_node, name) :
        get_node(s, get_name_node(s, u).node.link).tag # "Err"}

LowestId(S) == CHOOSE x \in S : \A y \in S : x <= y

\* C16: lookup(parent, name) on a tag parent replies, with a TTL of one
\* second, the attributes of the target of the entry with the lowest NameNode
\* id among the entries of that name whose target resolves, and ENOENT when
\* there is none.
C16_LookupTakesLowestId ==
    \A parent \in Inos, name \in Names \cup {".", ".."} :
        get_inode(store, parent).tag = "Tag"
        => LET c == Candidates(store, get_inode(store, parent).node, name) IN
           TagFS_lookup(store, parent, name)
             = IF c = {} THEN ReplyError("ENOENT")
               ELSE ReplyEntry(TTL, into_file_attr(attr_of(
                        get_node(store, get_name_node(store, LowestId(c)).node.link))))

\* the root holds two entries called "file1", the seed file and a directory,
\* and lookup answers with the directory, whose entry has the lower id
C16_Witness ==
    /\ get_inode(store, 1).tag = "Tag"
    /\ Cardinality(Candidates(store, get_inode(store, 1).node, "file1")) = 2
    /\ TagFS_lookup(store, 1, "file1").attr.kind = "Directory"
    /\ get_node(store, get_name_node(store,
           LowestId(Candidates(store, get_inode(store, 1).node, "file1"))).node.link).tag
         = "Tag"

\* C17: a lookup whose parent inode resolves to a FileNode, and a readdir of
\* an inode that resolves to a FileNode, reply ENOTDIR.
C17_ReadsOfFileAreNotDir ==
    (req.op \in {"lookup", "readdir"} /\ get_inode(store, req.ino).tag = "File")
    => reply = ReplyError("ENOTDIR")

---------------------------------------------------------------------------
(* Listings of a directory that holds entries: one mknod for the directory *)
(* and one for an entry in it, so one inode number and one uuid more than   *)
(* MaxInode and MaxUuid give, in exchange for fewer inputs.                 *)

MaxListInode == MaxInode + 1
ListUuids == 1..(MaxUuid + 1)
ListInos == {1, MaxInode}                 \* the root and the first node made
ListModes == {S_IFREG + 420, S_IFDIR + 493}
ListOffsets == 0..MaxInode

\* Uuid::new_v4() over the pool ListUuids
new_v4_list(s, n) ==
    {u \in [1..n -> ListUuids \ UsedNameUuids(s)] :
        \A i, j \in 1..n : i # j => u[i] # u[j]}

mknod_list ==
    /\ phase = "serving"
    /\ \E parent \in ListInos, mode \in ListModes :
         \E n \in {make_draws(store, parent, mode)} :
           /\ inode_cur <= MaxListInode \/ n = 0
           /\ \E us \in new_v4_list(store, n) :
                /\ DotsInOrder(us, mode)
                /\ \E o \in {TagFS_mknod(store, hasher, inode_cur, filehandle_cur,
                                        parent, "x", mode, ProcUid, us)} :
                     /\ o.inode_cur <= MaxListInode + 1
                     /\ o.drawn = n
                     /\ Commit(o, Req("mknod", parent, "x", mode, ProcUid, 0, 0))

readdir_list ==
    /\ phase = "serving"
    /\ \E ino \in ListInos, offset \in ListOffsets, cap \in BufCaps :
         Answer(TagFS_readdir(store, ino, offset, cap),
                Req("readdir", ino, "", 0, 0, offset, cap))

NextList == init \/ mknod_list \/ readdir_list
SpecList == Init /\ [][NextList]_vars

\* C18: in every readdir(ino, offset) reply the i-th emitted entry, counting
\* from 0, carries the next-offset offset + i + 1, also for tags that hold
\* entries which cannot be loaded.
C18_OffsetsCountEmitted ==
    (req.op = "readdir" /\ reply.kind = "dir")
    => \A i \in 1..Len(reply.entries) :
         reply.entries[i].offset = req.offset + (i - 1) + 1

\* the outgoing set of the tag of inode number ino, in its order
IdsOf(s, ino) == btree_iter(get_inode(s, ino).node.dir_links)

\* the positions after position k in the outgoing set of ino whose entry can
\* be emitted: the NameNode record is stored and its target resolves
Emittable(s, ino, k) ==
    {p \in (k + 1)..Len(IdsOf(s, ino)) :
        /\ get_name_node(s, IdsOf(s, ino)[p]).tag = "Name"
        /\ get_node(s, get_name_node(s, IdsOf(s, ino)[p]).node.link).tag # "Err"}

\* what a listing owes for position p
EntryAt(s, ino, p) ==
    LET nn == get_name_node(s, IdsOf(s, ino)[p]).node
        node == get_node(s, nn.link)
    IN [ino |-> attr_of(node).inode, offset |-> p,
        kind |-> into_file_type(attr_of(node).kind), name |-> nn.name]

\* the entries after position k, in the order of the outgoing set
EntriesAfter(s, ino, k) ==
    LET P == Emittable(s, ino, k) IN
    [i \in 1..Cardinality(P) |->
        EntryAt(s, ino, CHOOSE p \in P : Cardinality({q \in P : q <= p}) = i)]

\* a session: readdir from offset k, then from the next-offset of the last
\* entry of each reply, until a reply is empty
RECURSIVE ReaddirChain(_, _, _, _)
ReaddirChain(s, ino, k, cap) ==
    LET r == TagFS_readdir(s, ino, k, cap).entries IN
    IF r = <<>> THEN <<>>
    ELSE r \o ReaddirChain(s, ino, r[Len(r)].offset, cap)

\* C19: a readdir of a tag from a next-offset emits the entries that follow
\* that position in the order of the outgoing set, as many as the buffer
\* holds, none repeated and none skipped; a chain of readdir calls on an
\* unchanged tag emits every entry that can be emitted exactly once.
C19_ReaddirResumes ==
    (req.op = "readdir" /\ get_inode(store, req.ino).tag = "Tag")
    => LET e == EntriesAfter(store, req.ino, req.offset) IN
       /\ reply = ReplyDirectory(
              SubSeq(e, 1, IF Len(e) < req.cap THEN Len(e) ELSE req.cap))
       /\ ReaddirChain(store, req.ino, 0, req.cap) = EntriesAfter(store, req.ino, 0)

\* a listing of a tag with three ids was resumed after its first entry with a
\* buffer of one entry, and emitted the one after it
C19_Witness ==
    /\ req.op = "readdir"
    /\ req.offset = 1
    /\ req.cap = 1
    /\ get_inode(store, req.ino).tag = "Tag"
    /\ Len(IdsOf(store, req.ino)) = 3
    /\ Len(EntriesAfter(store, req.ino, 0)) >= 2
    /\ Len(reply.entries) = 1
    /\ reply.entries[1].offset > 1

---------------------------------------------------------------------------
(* TagFS::read.  A u64 is the pair <<hi, lo>> of its value divided by 2^16  *)
(* and the remainder, so that lengths of 2^32 and more can be written; a    *)
(* u32 is such a pair with hi < 2^16.                                       *)

U64(hi, lo) == <<hi, lo>>
Less(a, b) == a[1] < b[1] \/ (a[1] = b[1] /\ a[2] < b[2])

\* std::cmp::min
min(a, b) == IF Less(b, a) THEN b ELSE a

\* u64::saturating_sub
saturating_sub(a, b) ==
    IF Less(a, b) THEN U64(0, 0)
    ELSE IF a[2] >= b[2] THEN U64(a[1] - b[1], a[2] - b[2])
    ELSE U64(a[1] - b[1] - 1, a[2] + 65536 - b[2])

\* x as u32: the low 32 bits
as_u32(a) == U64(a[1] % 65536, a[2])

\* the lengths of the backing file filenodes/<hash> as metadata().len() finds
\* it: 0, 13, 2^32, 2^32 + 13
FileLens == {U64(0, 0), U64(0, 13), U64(65536, 0), U64(65536, 13)}
\* the offsets of a read: 0, 5, 13, 20
ReadOffsets == {U64(0, 0), U64(0, 5), U64(0, 13), U64(0, 20)}
\* the sizes of a read: 0, 4, 4096, 2^32 - 1
ReadSizes == {U64(0, 0), U64(0, 4), U64(0, 4096), U64(65535, 65535)}

ReadReq(ino, offset, size, file_size) ==
    [op |-> "read", ino |-> ino, name |-> "", mode |-> 0, uid |-> 0,
     offset |-> offset, cap |-> 0, size |-> size, file_size |-> file_size]

\* reply.data(&buffer): len bytes of the backing file, from position at
ReplyData(at, len) ==
    [kind |-> "data", errno |-> "", ttl |-> 0, attr |-> NoAttr, fh |-> 0,
     entries |-> <<>>, data |-> [at |-> at, len |-> len]]

\* a read that opens the record of a tag as it opens that of a file
TagFS_read_any(s, ino, offset, size, file_size) ==
    LET node == get_inode(s, ino) IN
    IF node.tag = "Err" THEN ReplyError("ENOENT")
    ELSE LET read_size == min(size, as_u32(saturating_sub(file_size, offset)))
         IN ReplyData(offset, read_size)

\* TagFS::read; the backing file is the record get_inode has just read, so
\* File::open finds it
TagFS_read(s, ino, offset, size, file_size) ==
    LET node == get_inode(s, ino) IN
    IF node.tag = "Err" THEN ReplyError("ENOENT")
    ELSE IF node.tag = "Tag" THEN ReplyError("EISDIR")
    ELSE LET read_size == min(size, as_u32(saturating_sub(file_size, offset)))
         IN ReplyData(offset, read_size)

read ==
    /\ phase = "serving"
    /\ \E ino \in Inos, offset \in ReadOffsets, size \in ReadSizes,
          file_size \in FileLens :
         Answer(TagFS_read(store, ino, offset, size, file_size),
                ReadReq(ino, offset, size, file_size))

\* one process on a fresh data directory: reads
NextData == init \/ read
SpecData == Init /\ [][NextData]_vars

NextIo == init \/ read \/ getattr
SpecIo == Init /\ [][NextIo]_vars

\* C21: read replies EISDIR when the inode resolves to a TagNode and ENOENT
\* when it does not resolve; getattr replies ENOENT when the inode does not
\* resolve; the reply is the error alone, without data or attributes.
C21_ReadAndGetattrErrors ==
    LET node == get_inode(store, req.ino) IN
    /\ (req.op = "read" /\ node.tag = "Tag") => reply = ReplyError("EISDIR")
    /\ (req.op = "read" /\ node.tag = "Err") => reply = ReplyError("ENOENT")
    /\ (req.op = "getattr" /\ node.tag = "Err") => reply = ReplyError("ENOENT")

C21_Witness ==
    /\ req.op = "read"
    /\ get_inode(store, req.ino).tag = "Tag"
    /\ reply.kind = "error"
    /\ req.size = U64(0, 4096)

\* the stored records that carry inode number n
InodeOwners(s, n) ==
    {<<"tagnodes", k>> : k \in {k \in DOMAIN s.tagnodes : s.tagnodes[k].dir_attr.inode = n}}
    \cup
    {<<"filenodes", k>> : k \in {k \in DOMAIN s.filenodes : s.filenodes[k].file_attr.inode = n}}

\* C22: within one process the inode numbers handed out are strictly
\* increasing: init takes 1 and 2, each later successful create or mknod takes
\* the next number, a failed one takes none, and no number is handed out
\* twice or carried by two stored nodes.
C22_InodeNumbersIncrease ==
    [][ /\ req'.op = "init"
           => /\ inode_cur = 1
              /\ inode_cur' = 3
              /\ InodeOwners(store', 1) = {<<"tagnodes", store'.inodes[1].key>>}
              /\ InodeOwners(store', 2) = {<<"filenodes", store'.inodes[2].key>>}
        /\ (IsMake(req') /\ Made(reply'))
           => /\ reply'.attr.ino = inode_cur
              /\ inode_cur' = inode_cur + 1
              /\ inode_cur \notin DOMAIN store.inodes
              /\ InodeOwners(store, inode_cur) = {}
              /\ inode_cur \in DOMAIN store'.inodes
        /\ (IsMake(req') /\ ~Made(reply')) => inode_cur' = inode_cur
        /\ req'.op = "destroy" => inode_cur' = inode_cur
        /\ \A n \in Inos : Cardinality(InodeOwners(store', n)) <= 1
      ]_vars

C22_Witness ==
    /\ req.op = "create"
    /\ reply.kind = "created"
    /\ reply.attr.ino = MaxInode
    /\ inode_cur = MaxInode + 1
    /\ \A n \in 1..MaxInode : n \in DOMAIN store.inodes

---------------------------------------------------------------------------
(* The callbacks that take their arguments and reply at once. *)

\* TagFS::setattr
TagFS_setattr == ReplyError("ENOSYS")

\* TagFS::unlink
TagFS_unlink == ReplyError("ENOSYS")

\* TagFS::rmdir
TagFS_rmdir == ReplyError("ENOSYS")

\* TagFS::symlink
TagFS_symlink == ReplyError("ENOSYS")

\* TagFS::rename
TagFS_rename == ReplyError("ENOSYS")

\* TagFS::link
TagFS_link == ReplyError("ENOSYS")

\* a write that reports success
TagFS_write_ok == Reply("written", "", 0, NoAttr, 0, <<>>)

\* TagFS::write
TagFS_write == ReplyError("ENOSYS")

\* TagFS::flush
TagFS_flush == ReplyError("ENOSYS")

\* TagFS::fsync
TagFS_fsync == ReplyError("ENOSYS")

\* TagFS::readdirplus
TagFS_readdirplus == ReplyError("ENOSYS")

\* TagFS::setxattr
TagFS_setxattr == ReplyError("ENOSYS")

\* TagFS::getxattr
TagFS_getxattr == ReplyError("ENOSYS")

\* TagFS::listxattr
TagFS_listxattr == ReplyError("ENOSYS")

\* TagFS::removexattr
TagFS_removexattr == ReplyError("ENOSYS")

\* TagFS::getlk
TagFS_getlk == ReplyError("ENOSYS")

\* TagFS::setlk
TagFS_setlk == ReplyError("ENOSYS")

\* TagFS::bmap
TagFS_bmap == ReplyError("ENOSYS")

\* TagFS::ioctl
TagFS_ioctl == ReplyError("ENOSYS")

\* TagFS::fallocate
TagFS_fallocate == ReplyError("ENOSYS")

\* TagFS::lseek
TagFS_lseek == ReplyError("ENOSYS")

\* TagFS::copy_file_range
TagFS_copy_file_range == ReplyError("ENOSYS")

\* the callbacks above, by name
StubOps ==
    {"setattr", "unlink", "rmdir", "symlink", "rename", "link", "write",
     "flush", "fsync", "readdirplus", "setxattr", "getxattr", "listxattr", "removexattr",
     "getlk", "setlk", "bmap", "ioctl", "fallocate", "lseek", "copy_file_range"}

\* the dispatch of a request to its callback
StubReply(op) ==
    CASE op = "setattr" -> TagFS_setattr
      [] op = "unlink" -> TagFS_unlink
      [] op = "rmdir" -> TagFS_rmdir
      [] op = "symlink" -> TagFS_symlink
      [] op = "rename" -> TagFS_rename
      [] op = "link" -> TagFS_link
      [] op = "write" -> TagFS_write
      [] op = "flush" -> TagFS_flush
      [] op = "fsync" -> TagFS_fsync
      [] op = "readdirplus" -> TagFS_readdirplus
      [] op = "setxattr" -> TagFS_setxattr
      [] op = "getxattr" -> TagFS_getxattr
      [] op = "listxattr" -> TagFS_listxattr
      [] op = "removexattr" -> TagFS_removexattr
      [] op = "getlk" -> TagFS_getlk
      [] op = "setlk" -> TagFS_setlk
      [] op = "bmap" -> TagFS_bmap
      [] op = "ioctl" -> TagFS_ioctl
      [] op = "fallocate" -> TagFS_fallocate
      [] op = "lseek" -> TagFS_lseek
      [] op = "copy_file_range" -> TagFS_copy_file_range

stub ==
    /\ phase = "serving"
    /\ \E op \in StubOps, ino \in ListInos :
         Answer(StubReply(op), Req(op, ino, "", 0, 0, 0, 0))

\* one process on a fresh data directory: new entries and the callbacks above
NextStub == init \/ mknod_list \/ stub
SpecStub == Init /\ [][NextStub]_vars

\* C23: setattr, unlink, rmdir, symlink, link, rename, flush, fsync, write,
\* the xattr calls, getlk, setlk, bmap, ioctl, fallocate, lseek,
\* copy_file_range and readdirplus reply ENOSYS in every reachable state and
\* for every argument.
C23_StubsReplyNoSys ==
    req.op \in StubOps => reply = ReplyError("ENOSYS")

C23_Witness ==
    /\ req.op = "write"
    /\ reply = ReplyError("ENOSYS")
    /\ inode_cur = MaxListInode + 1

---------------------------------------------------------------------------
(* The time round trip *)

\* the seconds and nanoseconds the conversions are applied to.  No operation
\* on a count of seconds below 2^62 in magnitude reaches the limits of an i64
\* or of a u64, so such counts are drawn from a few values of either sign.
TimeSecs == {-1073741823, -65536, -5, -1, 0, 1, 5, 65536, 1073741823}
TimeNsecs == {0, 1, 300, 500000000, 999999999}

TimeReq(secs, nsecs) ==
    [op |-> "time", ino |-> 0, name |-> "", mode |-> 0, uid |-> 0,
     offset |-> 0, cap |-> 0, secs |-> secs, nsecs |-> nsecs]

\* a pair of seconds and nanoseconds is given
InitTime ==
    /\ store = EmptyStore
    /\ hasher = EmptyHasher
    /\ inode_cur = 1
    /\ filehandle_cur = 1
    /\ phase = "pair"
    /\ mounts = 1
    /\ req \in {TimeReq(secs, nsecs) : secs \in TimeSecs, nsecs \in TimeNsecs}
    /\ reply = NoReply
    /\ clock = 0

\* the pair is converted to an instant
to_system_time ==
    /\ phase = "pair"
    /\ phase' = "instant"
    /\ reply' = [kind |-> "instant",
                 instant |-> system_time_from_time(req.secs, req.nsecs)]
    /\ UNCHANGED <<store, hasher, inode_cur, filehandle_cur, mounts, req, clock>>

\* the instant is converted back
from_system_time ==
    /\ phase = "instant"
    /\ phase' = "back"
    /\ reply' = [kind |-> "time", instant |-> reply.instant,
                 time |-> time_from_system_time(reply.instant)]
    /\ UNCHANGED <<store, hasher, inode_cur, filehandle_cur, mounts, req, clock>>

NextTime == to_system_time \/ from_system_time
SpecTime == InitTime /\ [][NextTime]_vars

\* C24: for every pair (secs, nsecs) with |secs| < 2^62 and nsecs < 10^9, secs
\* negative and nsecs non-zero included, system_time_from_time followed by
\* time_from_system_time returns the pair.
C24_TimeRoundTrip ==
    phase = "back" => reply.time = <<req.secs, req.nsecs>>

C24_Witness ==
    /\ phase = "back"
    /\ req.secs < 0
    /\ req.nsecs = 300
    /\ reply.time = <<req.secs, req.nsecs>>
    /\ reply.instant.tv_nsec = NANOS_PER_SEC - 300

\* C25: from the same state and with the same parent, name, mode and uid,
\* create and mknod leave the same store (the same fresh identifiers being
\* drawn), fail in the same cases with the same error, and differ only in
\* the shape of the reply: created with a handle, or entry.
C25_CreateAndMknodAgree ==
    phase = "serving" =>
    \A parent \in Inos, name \in Names, mode \in Modes, uid \in Uids :
      \A us \in new_v4_names(store, make_draws(store, parent, mode)) :
        LET c == TagFS_create(store, hasher, inode_cur, filehandle_cur,
                              parent, name, mode, uid, us)
            m == TagFS_mknod(store, hasher, inode_cur, filehandle_cur,
                             parent, name, mode, uid, us)
        IN /\ c.store = m.store
           /\ c.hasher = m.hasher
           /\ c.inode_cur = m.inode_cur
           /\ c.panicked = m.panicked
           /\ IF c.reply.kind = "error"
              THEN m.reply = c.reply
              ELSE /\ c.reply.kind = "created"
                   /\ m.reply = ReplyEntry(c.reply.ttl, c.reply.attr)

---------------------------------------------------------------------------
(* The writes of a create, one store after the other. *)

\* create/mknod: the store after each of the calls insert_name_node,
\* insert_inode(&parent_inode), insert_inode(&inode), in the order of the code
make_writes(s, parent_inode, name, inode, u) ==
    IF parent_inode.tag = "Tag"
    THEN LET name_node == NameNode_new(u, name, to_node(inode))
             t == add_file(parent_inode.node, name_node)
             s1 == insert_name_node(s, name_node)
             s2 == insert_inode(s1, INodeTag(t))
         IN <<s1, s2, insert_inode(s2, inode)>>
    ELSE <<insert_inode(s, inode)>>

\* in store w the tag of inode number parent lists id u without the NameNode
\* record of u, or without the record of what u points to
ListsUnwritten(w, parent, u) ==
    LET p == get_inode(w, parent) IN
    /\ p.tag = "Tag"
    /\ u \in p.node.dir_links
    /\ \/ get_name_node(w, u).tag # "Name"
       \/ get_node(w, get_name_node(w, u).node.link).tag = "Err"

\* C26: within create the NameNode record is written first, then the new
\* node's record, then the parent's: after none of the writes does the stored
\* parent list the new entry without its NameNode record or without the
\* record of the new node.
C26_ParentWrittenLast ==
    phase = "serving" =>
    \A parent \in Inos, name \in Names, mode \in Modes, uid \in Uids :
      \A us \in new_v4_names(store, make_draws(store, parent, mode)) :
        LET o == TagFS_create(store, hasher, inode_cur, filehandle_cur,
                              parent, name, mode, uid, us)
            inode == get_inode(o.store, inode_cur)
            u == uuid_at(us, dot_draws(inode) + 1)
            w == make_writes(store, get_inode(store, parent), name, inode, u)
        IN o.reply.kind = "created"
           => /\ w[Len(w)] = o.store
              /\ \A i \in 1..Len(w) : ~ListsUnwritten(w[i], parent, u)

---------------------------------------------------------------------------
(* The clock *)

\* a second passes between two requests
tick ==
    /\ phase = "serving"
    /\ clock < MaxClock
    /\ clock' = clock + 1
    /\ req' = Req("tick", 0, "", 0, 0, 0, 0)
    /\ reply' = NoReply
    /\ UNCHANGED <<store, hasher, inode_cur, filehandle_cur, phase, mounts>>

\* one process on a fresh data directory, with time passing
NextClock == init \/ create \/ mknod \/ tick
SpecClock == Init /\ [][NextClock]_vars

\* (secs, nsecs) a is earlier than b
TimeLess(a, b) == a[1] < b[1] \/ (a[1] = b[1] /\ a[2] < b[2])

\* C27: after a successful create or mknod in tag P the stored record of P has
\* last-modified and last-metadata-changed times not earlier than the moment
\* the request was handled.
C27_ParentTimesRefreshed ==
    [][ (IsMake(req') /\ Made(reply') /\ get_inode(store, req'.ino).tag = "Tag")
        => LET a == attr_of(get_inode(store', req'.ino)) IN
           /\ ~TimeLess(a.last_modified, time_now)
           /\ ~TimeLess(a.last_metadata_changed, time_now)
      ]_vars

---------------------------------------------------------------------------
(* Modes and uids *)

\* the modes of a request with the setuid and setgid bits: 0o100644,
\* 0o104755, 0o102644, 0o047777, and 0o104644 with bit 16 set above it
SanModes ==
    {S_IFREG + 420, S_IFREG + S_ISUID + 493, S_IFREG + S_ISGID + 420,
     S_IFDIR + S_ISUID + S_ISGID + 1023, 65536 + S_IFREG + S_ISUID + 420}
\* req.uid(): root and the user of the process
SanUids == {0, ProcUid}

create_mode ==
    /\ phase = "serving"
    /\ \E mode \in SanModes, uid \in SanUids :
         \E n \in {make_draws(store, 1, mode)} :
           /\ inode_cur <= MaxListInode \/ n = 0
           /\ \E us \in new_v4_list(store, n) :
                /\ DotsInOrder(us, mode)
                /\ \E o \in {TagFS_create(store, hasher, inode_cur, filehandle_cur,
                                         1, "x", mode, uid, us)} :
                     /\ o.inode_cur <= MaxListInode + 1
                     /\ o.drawn = n
                     /\ Commit(o, Req("create", 1, "x", mode, uid, 0, 0))

mknod_mode ==
    /\ phase = "serving"
    /\ \E mode \in SanModes, uid \in SanUids :
         \E n \in {make_draws(store, 1, mode)} :
           /\ inode_cur <= MaxListInode \/ n = 0
           /\ \E us \in new_v4_list(store, n) :
                /\ DotsInOrder(us, mode)
                /\ \E o \in {TagFS_mknod(store, hasher, inode_cur, filehandle_cur,
                                        1, "x", mode, uid, us)} :
                     /\ o.inode_cur <= MaxListInode + 1
                     /\ o.drawn = n
                     /\ Commit(o, Req("mknod", 1, "x", mode, uid, 0, 0))

\* one process on a fresh data directory: new entries of the root, by root
\* and by the user
NextMode == init \/ create_mode \/ mknod_mode
SpecMode == Init /\ [][NextMode]_vars

\* bit b (a power of two) of x
BitOf(x, b) == (x \div b) % 2

\* C28: the stored mode of the node a create or mknod makes is the low 16 bits
\* of the requested mode, with the setuid (0o4000) and setgid (0o2000) bits
\* cleared when the requesting uid is not 0 and kept when it is 0.
C28_ModeSanitised ==
    [][ (IsMake(req') /\ Made(reply'))
        => LET low == req'.mode % 65536
               stored == attr_of(get_inode(store', inode_cur)).mode
           IN /\ req'.uid # 0
                 => stored = low - S_ISUID * BitOf(low, S_ISUID)
                                 - S_ISGID * BitOf(low, S_ISGID)
              /\ req'.uid = 0 => stored = low
      ]_vars

C28_Witness ==
    /\ req.op = "mknod"
    /\ reply.kind = "entry"
    /\ req.uid # 0
    /\ req.mode = 65536 + S_IFREG + S_ISUID + 420
    /\ reply.attr.perm = S_IFREG + 420

\* C29: the mount leaves the serving state only through destroy: no request,
\* a create or mknod with an unsupported file type or with a parent that is
\* not a tag included, aborts the process; after the reply the next request
\* is served.
C29_OnlyDestroyEndsServing ==
    [][ phase = "serving" => (phase' = "serving" \/ req'.op = "destroy") ]_vars

\* the NameNode ids of the entries a listing of the tag of inode number ino
\* emitted from store s
EmittedIds(s, ino, entries) ==
    {IdsOf(s, ino)[entries[i].offset] : i \in 1..Len(entries)}

\* C30: when a create or mknod adds an entry to a tag between two readdir
\* calls of one session, the second call being made with the last next-offset
\* of the first, no entry already emitted is emitted again and no entry that
\* was there at the start of the session is left out.
C30_OffsetsSurviveGrowth ==
    [][ (req'.op = "mknod" /\ Made(reply') /\ get_inode(store, req'.ino).tag = "Tag")
        => \A cap \in BufCaps :
             LET first == TagFS_readdir(store, req'.ino, 0, cap).entries IN
             first # <<>>
             => LET k == first[Len(first)].offset
                    rest == ReaddirChain(store', req'.ino, k, cap)
                    ids1 == EmittedIds(store, req'.ino, first)
                    ids2 == EmittedIds(store', req'.ino, rest)
                IN /\ ids1 \cap ids2 = {}
                   /\ \A p \in Emittable(store, req'.ino, 0) :
                        IdsOf(store, req'.ino)[p] \in ids1 \cup ids2
      ]_vars

---------------------------------------------------------------------------
(* The frame of create and mknod *)

create_list ==
    /\ phase = "serving"
    /\ \E parent \in ListInos, mode \in ListModes :
         \E n \in {make_draws(store, parent, mode)} :
           /\ inode_cur <= MaxListInode \/ n = 0
           /\ \E us \in new_v4_list(store, n) :
                /\ DotsInOrder(us, mode)
                /\ \E o \in {TagFS_create(store, hasher, inode_cur, filehandle_cur,
                                         parent, "x", mode, ProcUid, us)} :
                     /\ o.inode_cur <= MaxListInode + 1
                     /\ o.drawn = n
                     /\ Commit(o, Req("create", parent, "x", mode, ProcUid, 0, 0))

\* one process on a fresh data directory: new entries in the root and in a
\* tag below it
NextFrame == init \/ create_list \/ mknod_list
SpecFrame == Init /\ [][NextFrame]_vars

\* C31: a successful create or mknod in tag P adds exactly one new id to the
\* stored outgoing set of P and removes none, and leaves the outgoing set of
\* every other stored TagNode and every stored NameNode record as it was.
C31_MakeExtendsOnlyParent ==
    [][ (IsMake(req') /\ Made(reply') /\ get_inode(store, req'.ino).tag = "Tag")
        => LET P == get_inode(store, req'.ino).node
               added == store'.tagnodes[P.id].dir_links \ P.dir_links
           IN /\ P.dir_links \subseteq store'.tagnodes[P.id].dir_links
              /\ Cardinality(added) = 1
              /\ added \cap DOMAIN store.namenodes_id = {}
              /\ \A t \in DOMAIN store.tagnodes :
                   added \cap store.tagnodes[t].dir_links = {}
              /\ \A t \in DOMAIN store.tagnodes \ {P.id} :
                   /\ t \in DOMAIN store'.tagnodes
                   /\ store'.tagnodes[t].dir_links = store.tagnodes[t].dir_links
              /\ \A u \in DOMAIN store.namenodes_id :
                   /\ u \in DOMAIN store'.namenodes_id
                   /\ store'.namenodes_id[u] = store.namenodes_id[u]
      ]_vars

\* a create in the tag of inode MaxInode, below the root, has answered
C31_Witness ==
    /\ req.op = "create"
    /\ reply.kind = "created"
    /\ req.ino = MaxInode
    /\ get_inode(store, MaxInode).tag = "Tag"
    /\ Cardinality(get_inode(store, MaxInode).node.dir_links) = 3
    /\ Cardinality(get_inode(store, 1).node.dir_links) = 2

---------------------------------------------------------------------------
(* The callbacks that keep no state: open, opendir, release, releasedir,    *)
(* statfs, forget, mkdir, and the remaining callbacks that reply ENOSYS.    *)

ReplyOpened(fh, flags) == Reply("opened", "", 0, NoAttr, fh, <<>>)
ReplyOk == Reply("ok", "", 0, NoAttr, 0, <<>>)
ReplyStatfs(blocks, bfree, bavail, files, ffree, bsize, namelen, frsize) ==
    [kind |-> "statfs", errno |-> "", ttl |-> 0, attr |-> NoAttr, fh |-> 0,
     entries |-> <<>>,
     statfs |-> <<blocks, bfree, bavail, files, ffree, bsize, namelen, frsize>>]

\* an open that hands out a fresh handle
TagFS_open_fresh(s, h, ic, fc, ino) ==
    LET fh == get_filehandle_cur(fc) IN
    Outcome(s, h, ic, fh.filehandle_cur, ReplyOpened(fh.a, 0), FALSE, 0)

\* TagFS::open: reply.opened(0, 0)
TagFS_open(s, h, ic, fc, ino) ==
    Outcome(s, h, ic, fc, ReplyOpened(0, 0), FALSE, 0)

\* TagFS::opendir: reply.opened(0, 0)
TagFS_opendir(s, h, ic, fc, ino) ==
    Outcome(s, h, ic, fc, ReplyOpened(0, 0), FALSE, 0)

\* TagFS::release: reply.ok()
TagFS_release(s, h, ic, fc, ino) ==
    Outcome(s, h, ic, fc, ReplyOk, FALSE, 0)

\* TagFS::releasedir: reply.ok()
TagFS_releasedir(s, h, ic, fc, ino) ==
    Outcome(s, h, ic, fc, ReplyOk, FALSE, 0)

\* TagFS::statfs: reply.statfs(0, 0, 0, 0, 0, 512, 255, 0)
TagFS_statfs(s, h, ic, fc, ino) ==
    Outcome(s, h, ic, fc, ReplyStatfs(0, 0, 0, 0, 0, 512, 255, 0), FALSE, 0)

\* TagFS::forget: no reply
TagFS_forget(s, h, ic, fc, ino) ==
    Outcome(s, h, ic, fc, NoReply, FALSE, 0)

\* TagFS::mkdir: reply.error(ENOSYS); the rest is commented out
TagFS_mkdir(s, h, ic, fc, ino) ==
    Outcome(s, h, ic, fc, ReplyError("ENOSYS"), FALSE, 0)

\* TagFS::readlink
TagFS_readlink == ReplyError("ENOSYS")

\* TagFS::fsyncdir
TagFS_fsyncdir == ReplyError("ENOSYS")

\* TagFS::access
TagFS_access == ReplyError("ENOSYS")

open ==
    /\ phase = "serving"
    /\ \E ino \in ListInos :
         \E o \in {TagFS_open(store, hasher, inode_cur, filehandle_cur, ino)} :
           Commit(o, Req("open", ino, "", 0, 0, 0, 0))

opendir ==
    /\ phase = "serving"
    /\ \E ino \in ListInos :
         \E o \in {TagFS_opendir(store, hasher, inode_cur, filehandle_cur, ino)} :
           Commit(o, Req("opendir", ino, "", 0, 0, 0, 0))

release ==
    /\ phase = "serving"
    /\ \E ino \in ListInos :
         \E o \in {TagFS_release(store, hasher, inode_cur, filehandle_cur, ino)} :
           Commit(o, Req("release", ino, "", 0, 0, 0, 0))

releasedir ==
    /\ phase = "serving"
    /\ \E ino \in ListInos :
         \E o \in {TagFS_releasedir(store, hasher, inode_cur, filehandle_cur, ino)} :
           Commit(o, Req("releasedir", ino, "", 0, 0, 0, 0))

statfs ==
    /\ phase = "serving"
    /\ \E ino \in ListInos :
         \E o \in {TagFS_statfs(store, hasher, inode_cur, filehandle_cur, ino)} :
           Commit(o, Req("statfs", ino, "", 0, 0, 0, 0))

forget ==
    /\ phase = "serving"
    /\ \E ino \in ListInos :
         \E o \in {TagFS_forget(store, hasher, inode_cur, filehandle_cur, ino)} :
           Commit(o, Req("forget", ino, "", 0, 0, 0, 0))

mkdir ==
    /\ phase = "serving"
    /\ \E ino \in ListInos :
         \E o \in {TagFS_mkdir(store, hasher, inode_cur, filehandle_cur, ino)} :
           Commit(o, Req("mkdir", ino, "", 0, 0, 0, 0))

\* readlink, fsyncdir and access, by name
OtherStubOps == {"readlink", "fsyncdir", "access"}

OtherStubReply(op) ==
    CASE op = "readlink" -> TagFS_readlink
      [] op = "fsyncdir" -> TagFS_fsyncdir
      [] op = "access" -> TagFS_access

stub_other ==
    /\ phase = "serving"
    /\ \E op \in OtherStubOps, ino \in ListInos :
         Answer(OtherStubReply(op), Req(op, ino, "", 0, 0, 0, 0))

\* one process on a fresh data directory: the callbacks that change nothing
NextQuiet ==
    \/ init
    \/ lookup \/ getattr \/ read \/ readdir
    \/ open \/ opendir \/ release \/ releasedir \/ statfs \/ forget \/ mkdir
    \/ stub \/ stub_other
SpecQuiet == Init /\ [][NextQuiet]_vars

\* the callbacks of C32, by name
QuietOps ==
    {"lookup", "getattr", "read", "readdir", "open", "opendir", "release",
     "releasedir", "statfs", "forget", "mkdir"} \cup StubOps \cup OtherStubOps

\* C32: lookup, getattr, read, readdir, open, opendir, release, releasedir,
\* statfs, forget, mkdir and every callback that replies ENOSYS leave the
\* store, the inode counter and the file-handle counter as they were, whatever
\* the arguments and the reply.
C32_QuietCallbacksChangeNothing ==
    [][ req'.op \in QuietOps
        => /\ store' = store
           /\ inode_cur' = inode_cur
           /\ filehandle_cur' = filehandle_cur
      ]_vars

C32_Witness ==
    /\ req.op = "open"
    /\ reply = ReplyOpened(0, 0)
    /\ filehandle_cur = 1
    /\ inode_cur = 3

\* C33: no operation deletes or re-kinds a node: within one mount on a fresh
\* store, once get_inode(n) returns a File or a Tag every later get_inode(n)
\* returns a node of the same kind, and once a NameNode id resolves it keeps
\* resolving to the same name and link.
C33_NodesKeepTheirKind ==
    [][ /\ \A n \in 1..MaxListInode :
             get_inode(store, n).tag \in {"File", "Tag"}
             => get_inode(store', n).tag = get_inode(store, n).tag
        /\ \A u \in ListUuids :
             get_name_node(store, u).tag = "Name"
             => /\ get_name_node(store', u).tag = "Name"
                /\ get_name_node(store', u).node.name = get_name_node(store, u).node.name
                /\ get_name_node(store', u).node.link = get_name_node(store, u).node.link
      ]_vars

\* two nodes were made after init; inode 2 still is a file, though its record
\* has been written over, and inode MaxInode is a tag
C33_Witness ==
    /\ inode_cur = MaxListInode + 1
    /\ IsMake(req)
    /\ Made(reply)
    /\ get_inode(store, 2).tag = "File"
    /\ attr_of(get_inode(store, 2)).inode = MaxListInode
    /\ get_inode(store, MaxInode).tag = "Tag"
    /\ Cardinality(DOMAIN store.namenodes_id) = 3

====
